---- MODULE Spec2Model ----
(***************************************************************************)
(* Model of app/mock_server.py: the Flask view mock_endpoint, which        *)
(* answers GET and POST requests from the first matching entry of          *)
(* mock_data['routes'] or with a JSON 404.                                 *)
(*                                                                         *)
(* Python strings are sequences of one-character strings, so that strip,   *)
(* upper, the substring test, replace, str() and the JSON encoding are     *)
(* computed character by character.  Python values (what yaml.safe_load    *)
(* and request.json return) are tagged records.                            *)
(***************************************************************************)
EXTENDS Integers, Sequences, FiniteSets, TLC

VARIABLES mock_data, loaded, werkzeug, last_body, pc, request, path, route,
          response_body, status_code, content_type, json_read, response

vars == <<mock_data, loaded, werkzeug, last_body, pc, request, path, route,
          response_body, status_code, content_type, json_read, response>>

(***************************************************************************)
(* Bounds of the model.                                                    *)
(***************************************************************************)
\* Longest request path (after the leading slash) that is enumerated.
MaxPathLen == 2
\* Longest rule sequence that is enumerated.
MaxRules == 2

(***************************************************************************)
(* Python values.                                                          *)
(***************************************************************************)
VStr(s)   == [t |-> "str", s |-> s]
VInt(n)   == [t |-> "int", n |-> n]
VBool(b)  == [t |-> "bool", b |-> b]
VNone     == [t |-> "none"]
VList(xs) == [t |-> "list", xs |-> xs]
\* A dict is the sequence of its items in insertion order, keys being strings.
VDict(kv) == [t |-> "dict", kv |-> kv]
Item(k, v) == [k |-> k, v |-> v]

\* The placeholder token '{data}'.
DATA == <<"{", "d", "a", "t", "a", "}">>

(***************************************************************************)
(* String operations.                                                      *)
(***************************************************************************)
\* sep.join(ss)
RECURSIVE Join(_, _)
Join(sep, ss) ==
    IF ss = <<>> THEN <<>>
    ELSE IF Len(ss) = 1 THEN ss[1]
    ELSE ss[1] \o sep \o Join(sep, Tail(ss))

\* a in b, for strings: a occurs in b as a contiguous run.
IsSubstring(a, b) ==
    \E i \in 0..(Len(b) - Len(a)) : SubSeq(b, i + 1, i + Len(a)) = a

\* s.lstrip(c), s.rstrip(c) and s.strip(c) for a single character c.
RECURSIVE LStrip(_, _)
LStrip(s, c) == IF s # <<>> /\ Head(s) = c THEN LStrip(Tail(s), c) ELSE s

RECURSIVE RStrip(_, _)
RStrip(s, c) ==
    IF s # <<>> /\ s[Len(s)] = c THEN RStrip(SubSeq(s, 1, Len(s) - 1), c) ELSE s

Strip(s, c) == RStrip(LStrip(s, c), c)

\* c.upper() for a character.
UpperChar(c) ==
    CASE c = "a" -> "A" [] c = "b" -> "B" [] c = "d" -> "D" [] c = "e" -> "E"
      [] c = "g" -> "G" [] c = "o" -> "O" [] c = "p" -> "P" [] c = "s" -> "S"
      [] c = "t" -> "T" [] c = "u" -> "U" [] OTHER -> c

\* s.upper()
Upper(s) == [i \in 1..Len(s) |-> UpperChar(s[i])]

\* s.replace(old, new) for a non-empty old: the non-overlapping occurrences,
\* found left to right.
RECURSIVE Replace(_, _, _)
Replace(s, old, new) ==
    IF Len(s) < Len(old) THEN s
    ELSE IF SubSeq(s, 1, Len(old)) = old
         THEN new \o Replace(SubSeq(s, Len(old) + 1, Len(s)), old, new)
         ELSE <<Head(s)>> \o Replace(Tail(s), old, new)

Digit(d) ==
    CASE d = 0 -> "0" [] d = 1 -> "1" [] d = 2 -> "2" [] d = 3 -> "3"
      [] d = 4 -> "4" [] d = 5 -> "5" [] d = 6 -> "6" [] d = 7 -> "7"
      [] d = 8 -> "8" [] d = 9 -> "9"

\* The decimal digits of a natural number.
RECURSIVE NatStr(_)
NatStr(n) == IF n < 10 THEN <<Digit(n)>> ELSE NatStr(n \div 10) \o <<Digit(n % 10)>>

\* str(n) for an int.
IntStr(n) == IF n < 0 THEN <<"-">> \o NatStr(0 - n) ELSE NatStr(n)

HasChar(s, c) == \E i \in 1..Len(s) : s[i] = c

\* The characters of s with the backslash and the quote q escaped.
RECURSIVE Escaped(_, _)
Escaped(s, q) ==
    IF s = <<>> THEN <<>>
    ELSE (IF Head(s) = q \/ Head(s) = "\\" THEN <<"\\", Head(s)>> ELSE <<Head(s)>>)
         \o Escaped(Tail(s), q)

\* repr(s) for a str: single quotes, unless s holds a single quote and no
\* double quote.
StrRepr(s) ==
    LET q == IF HasChar(s, "'") /\ ~HasChar(s, "\"") THEN "\"" ELSE "'"
    IN  <<q>> \o Escaped(s, q) \o <<q>>

\* repr(v) of a Python value.
RECURSIVE PyRepr(_)
PyRepr(v) ==
    CASE v.t = "str"  -> StrRepr(v.s)
      [] v.t = "int"  -> IntStr(v.n)
      [] v.t = "bool" -> IF v.b THEN <<"T", "r", "u", "e">>
                                ELSE <<"F", "a", "l", "s", "e">>
      [] v.t = "none" -> <<"N", "o", "n", "e">>
      [] v.t = "list" ->
            <<"[">> \o Join(<<",", " ">>, [i \in 1..Len(v.xs) |-> PyRepr(v.xs[i])])
                    \o <<"]">>
      [] v.t = "dict" ->
            <<"{">> \o Join(<<",", " ">>,
                            [i \in 1..Len(v.kv) |->
                                StrRepr(v.kv[i].k) \o <<":", " ">> \o PyRepr(v.kv[i].v)])
                    \o <<"}">>

\* str(v): a str is itself, anything else is its repr.
PyStr(v) == IF v.t = "str" THEN v.s ELSE PyRepr(v)

(***************************************************************************)
(* flask.jsonify: json.dumps with sorted keys and compact separators,      *)
(* followed by a newline, as the app serves it with app.debug off (under   *)
(* the test client or a WSGI server); with debug on, the same document is  *)
(* indented.                                                               *)
(***************************************************************************)
\* ord(c) for the characters that occur in dict keys.
Ord(c) ==
    CASE c = "a" -> 97  [] c = "b" -> 98  [] c = "c" -> 99  [] c = "d" -> 100
      [] c = "e" -> 101 [] c = "f" -> 102 [] c = "g" -> 103 [] c = "h" -> 104
      [] c = "i" -> 105 [] c = "k" -> 107 [] c = "m" -> 109 [] c = "n" -> 110
      [] c = "o" -> 111 [] c = "r" -> 114 [] c = "s" -> 115 [] c = "t" -> 116
      [] c = "u" -> 117 [] c = "v" -> 118 [] c = "x" -> 120

\* a < b for strings.
RECURSIVE StrLess(_, _)
StrLess(a, b) ==
    IF b = <<>> THEN FALSE
    ELSE IF a = <<>> THEN TRUE
    ELSE IF Head(a) = Head(b) THEN StrLess(Tail(a), Tail(b))
    ELSE Ord(Head(a)) < Ord(Head(b))

\* The items of a dict sorted by key (sort_keys=True); the sort is stable.
RECURSIVE SortedItems(_)
SortedItems(kv) ==
    IF kv = <<>> THEN <<>>
    ELSE LET m == CHOOSE i \in 1..Len(kv) :
                      \A j \in 1..Len(kv) :
                          /\ ~StrLess(kv[j].k, kv[i].k)
                          /\ (j < i => StrLess(kv[i].k, kv[j].k))
             rest == [j \in 1..(Len(kv) - 1) |-> IF j < m THEN kv[j] ELSE kv[j + 1]]
         IN  <<kv[m]>> \o SortedItems(rest)

\* A JSON string literal.
JsonStr(s) == <<"\"">> \o Escaped(s, "\"") \o <<"\"">>

\* json.dumps(v, sort_keys=True, separators=(',', ':'))
RECURSIVE JsonDumps(_)
JsonDumps(v) ==
    CASE v.t = "str"  -> JsonStr(v.s)
      [] v.t = "int"  -> IntStr(v.n)
      [] v.t = "bool" -> IF v.b THEN <<"t", "r", "u", "e">>
                                ELSE <<"f", "a", "l", "s", "e">>
      [] v.t = "none" -> <<"n", "u", "l", "l">>
      [] v.t = "list" ->
            <<"[">> \o Join(<<",">>, [i \in 1..Len(v.xs) |-> JsonDumps(v.xs[i])])
                    \o <<"]">>
      [] v.t = "dict" ->
            LET kv == SortedItems(v.kv)
            IN  <<"{">> \o Join(<<",">>,
                                [i \in 1..Len(kv) |->
                                    JsonStr(kv[i].k) \o <<":">> \o JsonDumps(kv[i].v)])
                        \o <<"}">>

(***************************************************************************)
(* Responses.  `by` records which exit produced the response: a return of  *)
(* a matched route ("rule"), the default return ("fallback"), an exception *)
(* raised inside the view ("abort"), or the URL map, when the view is not  *)
(* called at all ("router").  `charset` tells whether the Content-Type     *)
(* header carries '; charset=utf-8' after the mimetype.                    *)
(***************************************************************************)
\* Mimetypes for which werkzeug appends the charset parameter.
IsTextType(mimetype) == mimetype \in {"text/plain", "text/html"}

\* Response(text, status=status, mimetype=mimetype)
Response(text, status, mimetype) ==
    [by |-> "rule", status |-> status, mimetype |-> mimetype,
     charset |-> IsTextType(mimetype), body |-> text]

\* jsonify(v), status
jsonify(v, status) ==
    [by |-> "rule", status |-> status, mimetype |-> "application/json",
     charset |-> FALSE, body |-> JsonDumps(v) \o <<"\n">>]

\* The page werkzeug renders for an HTTPException: the markup, then the code.
ErrorPage(code) == <<"<!doctype html>">> \o NatStr(code)

HTTPException(by, code) ==
    [by |-> by, status |-> code, mimetype |-> "text/html", charset |-> TRUE,
     body |-> ErrorPage(code)]

\* jsonify({"error": "Route not found"}), 404
RouteNotFound ==
    [jsonify(VDict(<<Item(<<"e", "r", "r", "o", "r">>,
                          VStr(<<"R", "o", "u", "t", "e", " ", "n", "o", "t", " ",
                                 "f", "o", "u", "n", "d">>))>>), 404)
        EXCEPT !.by = "fallback"]

NoResponse == [by |-> "none"]

(***************************************************************************)
(* The rule sets and the requests that are enumerated.                     *)
(***************************************************************************)
GET  == <<"G", "E", "T">>
POST == <<"P", "O", "S", "T">>
PUT  == <<"P", "U", "T">>

\* {'message': 'hi'} as JSON for GET on '/a'.
RuleTest ==
    [path |-> <<"/", "a">>, method |-> GET, status_code |-> 200,
     content_type |-> "application/json",
     response |-> VDict(<<Item(<<"m", "e", "s", "s", "a", "g", "e">>,
                               VStr(<<"h", "i">>))>>)]

\* The plain string 'ok {data}' as text for get on 'b/'.
RuleText ==
    [path |-> <<"b", "/">>, method |-> <<"g", "e", "t">>, status_code |-> 200,
     content_type |-> "text/plain",
     response |-> VStr(<<"o", "k", " ">> \o DATA)]

\* {'echo': 'got {data}', 'n': 1, 'sub': {'v': '{data}'}} for Post on '/',
\* with no content_type.
RuleEcho ==
    [path |-> <<"/">>, method |-> <<"P", "o", "s", "t">>, status_code |-> 201,
     response |-> VDict(<<Item(<<"e", "c", "h", "o">>,
                               VStr(<<"g", "o", "t", " ">> \o DATA)),
                          Item(<<"n">>, VInt(1)),
                          Item(<<"s", "u", "b">>,
                               VDict(<<Item(<<"v">>, VStr(DATA))>>))>>)]

\* {'k': '{data}-{data}', 'ok': True} as image/png for POST on 'ab', with no
\* status_code.
RuleOpaque ==
    [path |-> <<"a", "b">>, method |-> POST, content_type |-> "image/png",
     response |-> VDict(<<Item(<<"k">>, VStr(DATA \o <<"-">> \o DATA)),
                          Item(<<"o", "k">>, VBool(TRUE))>>)]

\* The plain string '{data}' for GET on '', with no content_type.
RuleQuote ==
    [path |-> <<>>, method |-> GET, status_code |-> 203,
     response |-> VStr(DATA)]

\* ['{data}', 1] as text/html for post on '/a/'.
RuleList ==
    [path |-> <<"/", "a", "/">>, method |-> <<"p", "o", "s", "t">>,
     status_code |-> 202, content_type |-> "text/html",
     response |-> VList(<<VStr(DATA), VInt(1)>>)]

RulePool == {RuleTest, RuleText, RuleEcho, RuleOpaque, RuleQuote, RuleList}

\* All sequences over S of length at most n.
RECURSIVE SeqsUpTo(_, _)
SeqsUpTo(S, n) ==
    IF n = 0 THEN {<<>>}
    ELSE LET shorter == SeqsUpTo(S, n - 1)
         IN  shorter \cup {Append(s, x) : s \in shorter, x \in S}

\* What yaml.safe_load can return: the rule sequences over the pool that
\* list no rule twice.
Configs ==
    {[routes |-> rs] :
        rs \in {s \in SeqsUpTo(RulePool, MaxRules) :
                   \A i, j \in 1..Len(s) : i # j => s[i] # s[j]}}

\* The rule sets of the concurrent specification.
ConcConfigs ==
    {[routes |-> <<RuleEcho>>], [routes |-> <<RuleTest, RuleEcho>>],
     [routes |-> <<RuleOpaque, RuleQuote>>], [routes |-> <<RuleList, RuleText>>]}

PathAlphabet == {"a", "b", "/"}

\* A URL path after its leading slash, in normal form: no empty segment
\* before the last slash.
IsNormalPath(p) ==
    /\ p = <<>> \/ Head(p) # "/"
    /\ \A i \in 1..(Len(p) - 1) : ~(p[i] = "/" /\ p[i + 1] = "/")

Paths == {p \in SeqsUpTo(PathAlphabet, MaxPathLen) : IsNormalPath(p)}

\* A request body: its mimetype, its text and what json.loads makes of it.
BodyDict ==
    [mimetype |-> "application/json",
     raw |-> <<"{", "\"", "x", "\"", ":", " ", "1", "}">>,
     loads |-> [ok |-> TRUE, v |-> VDict(<<Item(<<"x">>, VInt(1))>>)]]
BodyStr ==
    [mimetype |-> "application/json", raw |-> <<"\"", "h", "i", "\"">>,
     loads |-> [ok |-> TRUE, v |-> VStr(<<"h", "i">>)]]
BodyMalformed ==
    [mimetype |-> "application/json", raw |-> <<"{", "x">>,
     loads |-> [ok |-> FALSE]]
BodyAbsent ==
    [mimetype |-> "", raw |-> <<>>, loads |-> [ok |-> FALSE]]

\* Before any request has been answered.
NoBody == [mimetype |-> "none", raw |-> <<>>, loads |-> [ok |-> FALSE]]

Bodies == {BodyDict, BodyStr, BodyMalformed, BodyAbsent}

Requests ==
    {[method |-> m, path |-> p, body |-> b] :
        m \in {GET, POST}, p \in Paths, b \in Bodies}
    \cup {[method |-> PUT, path |-> <<"a">>, body |-> BodyDict]}

ConcRequests ==
    {[method |-> m, path |-> p, body |-> b] :
        m \in {GET, POST}, p \in {<<>>, <<"a">>, <<"a", "b">>}, b \in Bodies}

NoRequest == [method |-> <<>>, path |-> <<>>, body |-> BodyAbsent]

\* The werkzeug generations, which differ in request.json when the request's
\* mimetype is not JSON: before 2.1 it is None, in 2.1 and 2.2 a 400, from 2.3
\* a 415.
Werkzeugs == {"2.0", "2.1", "2.3"}

Workers == {1, 2}

(***************************************************************************)
(* The steps of mock_endpoint as operators.                                *)
(***************************************************************************)
\* The methods of the view's URL rule.
RouteMethods == {GET, POST}

\* '/<path:path>': the path converter matches one character or more.
UrlRuleMatches(p) == p # <<>>

\* route['path'].strip('/') in path and route['method'].upper() == request.method
Matches(r, p, method) ==
    /\ IsSubstring(Strip(r.path, "/"), p)
    /\ Upper(r.method) = method

\* for route in mock_data['routes']: the index of the first route, from i on,
\* whose condition holds; 0 when the loop ends without one.
RECURSIVE ScanFrom(_, _, _, _)
ScanFrom(routes, i, p, method) ==
    IF i > Len(routes) THEN 0
    ELSE IF Matches(routes[i], p, method) THEN i
    ELSE ScanFrom(routes, i + 1, p, method)

FirstMatch(routes, p, method) == ScanFrom(routes, 1, p, method)

\* route.get('status_code', 200)
StatusOf(r) == IF "status_code" \in DOMAIN r THEN r.status_code ELSE 200

\* route.get('content_type', 'application/json')
ContentTypeOf(r) ==
    IF "content_type" \in DOMAIN r THEN r.content_type ELSE "application/json"

\* A faulty variant: the gate without the scan for the token, so that every
\* dict is substituted.
NeedsInjectNoScan(body) == body.t = "dict"

\* isinstance(response_body, dict) and '{data}' in str(response_body)
NeedsInject(body) == body.t = "dict" /\ IsSubstring(DATA, PyStr(body))

\* {k: (v.replace("{data}", data) if isinstance(v, str) else v) for k, v in ...}
Injected(body, data) ==
    VDict([i \in 1..Len(body.kv) |->
              Item(body.kv[i].k,
                   IF body.kv[i].v.t = "str"
                   THEN VStr(Replace(body.kv[i].v.s, DATA, data))
                   ELSE body.kv[i].v)])

\* A faulty variant: the substitution done in place, overwriting the stored
\* route's dict.
RoutesAfterInjectInPlace(routes, i, new_body) ==
    [routes EXCEPT ![i].response = new_body]

\* The routes after the comprehension has run for route i: it builds a new
\* dict and binds it to the local name, so the stored route keeps its own.
RoutesAfterInject(routes, i, new_body) == routes

\* request.json: the parsed body, or the HTTP error it raises.
RequestJson(req, wz) ==
    IF req.body.mimetype = "application/json"
    THEN IF req.body.loads.ok
         THEN [ok |-> TRUE, v |-> req.body.loads.v]
         ELSE [ok |-> FALSE, code |-> 400]
    ELSE CASE wz = "2.0" -> [ok |-> TRUE, v |-> VNone]
           [] wz = "2.1" -> [ok |-> FALSE, code |-> 400]
           [] wz = "2.3" -> [ok |-> FALSE, code |-> 415]

\* The return chosen by the content type.
Encoded(body, status, ctype) ==
    IF ctype = "text/plain" THEN Response(PyStr(body), status, "text/plain")
    ELSE IF ctype = "application/json" THEN jsonify(body, status)
    ELSE Response(PyStr(body), status, ctype)

\* The response to one request handled from start to end against cfg.
Served(cfg, wz, req) ==
    IF ~UrlRuleMatches(req.path) THEN HTTPException("router", 404)
    ELSE IF req.method \notin RouteMethods THEN HTTPException("router", 405)
    ELSE LET i == FirstMatch(cfg.routes, req.path, req.method)
         IN  IF i = 0 THEN RouteNotFound
             ELSE LET r == cfg.routes[i]
                      j == RequestJson(req, wz)
                  IN  IF ~NeedsInject(r.response)
                      THEN Encoded(r.response, StatusOf(r), ContentTypeOf(r))
                      ELSE IF j.ok
                      THEN Encoded(Injected(r.response, PyStr(j.v)),
                                   StatusOf(r), ContentTypeOf(r))
                      ELSE HTTPException("abort", j.code)

(***************************************************************************)
(* The state machine.  Each worker handles one request at a time, in the   *)
(* steps receive, match, inject, encode; mock_data is the module global    *)
(* all workers read, loaded is what load_mock_responses returned, and      *)
(* last_body is the body of the request answered last.                     *)
(***************************************************************************)
\* A faulty variant: one request object shared by all workers, the one of
\* some active worker.
CurrentRequestShared(w) == request[CHOOSE v \in Workers : pc[v] # "idle"]

\* flask.request is bound to the worker's own request context.
CurrentRequest(w) == request[w]

InitWith(cfgs) ==
    /\ mock_data \in cfgs
    /\ loaded = mock_data
    /\ werkzeug \in Werkzeugs
    /\ last_body = NoBody
    /\ pc = [w \in Workers |-> "idle"]
    /\ request = [w \in Workers |-> NoRequest]
    /\ path = [w \in Workers |-> <<>>]
    /\ route = [w \in Workers |-> 0]
    /\ response_body = [w \in Workers |-> VNone]
    /\ status_code = [w \in Workers |-> 0]
    /\ content_type = [w \in Workers |-> ""]
    /\ json_read = [w \in Workers |-> FALSE]
    /\ response = [w \in Workers |-> NoResponse]

\* The URL map dispatches a request: to the view with the path after the
\* leading slash, or to an error page when no rule or no method matches.
Receive(w, reqs) ==
    /\ pc[w] = "idle"
    /\ \E r \in reqs :
          /\ request' = [request EXCEPT ![w] = r]
          /\ IF ~UrlRuleMatches(r.path)
             THEN /\ response' = [response EXCEPT ![w] = HTTPException("router", 404)]
                  /\ pc' = [pc EXCEPT ![w] = "done"]
                  /\ path' = path
             ELSE IF r.method \notin RouteMethods
             THEN /\ response' = [response EXCEPT ![w] = HTTPException("router", 405)]
                  /\ pc' = [pc EXCEPT ![w] = "done"]
                  /\ path' = path
             ELSE /\ path' = [path EXCEPT ![w] = r.path]
                  /\ pc' = [pc EXCEPT ![w] = "match"]
                  /\ response' = response
    /\ UNCHANGED <<mock_data, loaded, werkzeug, last_body, route, response_body,
                   status_code, content_type, json_read>>

\* The loop over the routes, and either the default return or the locals of
\* the matched route.
Match(w) ==
    /\ pc[w] = "match"
    /\ LET i == FirstMatch(mock_data.routes, path[w], CurrentRequest(w).method)
       IN  IF i = 0
           THEN /\ response' = [response EXCEPT ![w] = RouteNotFound]
                /\ pc' = [pc EXCEPT ![w] = "done"]
                /\ UNCHANGED <<route, response_body, status_code, content_type>>
           ELSE /\ route' = [route EXCEPT ![w] = i]
                /\ response_body' =
                       [response_body EXCEPT ![w] = mock_data.routes[i].response]
                /\ status_code' =
                       [status_code EXCEPT ![w] = StatusOf(mock_data.routes[i])]
                /\ content_type' =
                       [content_type EXCEPT ![w] = ContentTypeOf(mock_data.routes[i])]
                /\ pc' = [pc EXCEPT ![w] = "inject"]
                /\ response' = response
    /\ UNCHANGED <<mock_data, loaded, werkzeug, last_body, request, path, json_read>>

\* The placeholder substitution; request.json is evaluated only when the
\* body is a dict that shows the token, and an error it raises ends the view.
Inject(w) ==
    /\ pc[w] = "inject"
    /\ IF NeedsInject(response_body[w])
       THEN LET j == RequestJson(CurrentRequest(w), werkzeug)
            IN  /\ json_read' = [json_read EXCEPT ![w] = TRUE]
                /\ IF j.ok
                   THEN LET new_body == Injected(response_body[w], PyStr(j.v))
                        IN  /\ response_body' = [response_body EXCEPT ![w] = new_body]
                            /\ mock_data' =
                                   [mock_data EXCEPT !.routes =
                                       RoutesAfterInject(mock_data.routes, route[w],
                                                         new_body)]
                            /\ pc' = [pc EXCEPT ![w] = "encode"]
                            /\ response' = response
                   ELSE /\ response' =
                               [response EXCEPT ![w] = HTTPException("abort", j.code)]
                        /\ pc' = [pc EXCEPT ![w] = "done"]
                        /\ UNCHANGED <<response_body, mock_data>>
       ELSE /\ pc' = [pc EXCEPT ![w] = "encode"]
            /\ UNCHANGED <<json_read, response_body, mock_data, response>>
    /\ UNCHANGED <<loaded, werkzeug, last_body, request, path, route, status_code,
                   content_type>>

\* The return of the matched route.
Encode(w) ==
    /\ pc[w] = "encode"
    /\ response' = [response EXCEPT ![w] =
                       Encoded(response_body[w], status_code[w], content_type[w])]
    /\ pc' = [pc EXCEPT ![w] = "done"]
    /\ UNCHANGED <<mock_data, loaded, werkzeug, last_body, request, path, route,
                   response_body, status_code, content_type, json_read>>

\* The response is sent and the request context is dropped.
Finish(w) ==
    /\ pc[w] = "done"
    /\ pc' = [pc EXCEPT ![w] = "idle"]
    /\ request' = [request EXCEPT ![w] = NoRequest]
    /\ path' = [path EXCEPT ![w] = <<>>]
    /\ route' = [route EXCEPT ![w] = 0]
    /\ response_body' = [response_body EXCEPT ![w] = VNone]
    /\ status_code' = [status_code EXCEPT ![w] = 0]
    /\ content_type' = [content_type EXCEPT ![w] = ""]
    /\ json_read' = [json_read EXCEPT ![w] = FALSE]
    /\ response' = [response EXCEPT ![w] = NoResponse]
    /\ last_body' = request[w].body
    /\ UNCHANGED <<mock_data, loaded, werkzeug>>

\* One request at a time.
Init == InitWith(Configs)

Next ==
    \/ Receive(1, Requests)
    \/ Match(1)
    \/ Inject(1)
    \/ Encode(1)
    \/ Finish(1)

Spec == Init /\ [][Next]_vars

\* Requests handled concurrently by the workers.
InitConc == InitWith(ConcConfigs)

NextConc ==
    \E w \in Workers :
        \/ Receive(w, ConcRequests)
        \/ Match(w)
        \/ Inject(w)
        \/ Encode(w)
        \/ Finish(w)

SpecConc == InitConc /\ [][NextConc]_vars

(***************************************************************************)
(* The claims.  A request is on the HTTP surface when its method is GET or *)
(* POST; it is answered when its worker holds the response.                *)
(***************************************************************************)
Answered(w) == pc[w] = "done"

OnSurface(w) == request[w].method \in {GET, POST}

\* The matched route of worker w, as loaded.
Rule(w) == loaded.routes[route[w]]

\* The indices of the loaded rules whose stripped fragment is a substring of
\* the request's path and whose upper-cased method is the request's method.
Satisfying(req) ==
    {k \in 1..Len(loaded.routes) :
        /\ IsSubstring(Strip(loaded.routes[k].path, "/"), req.path)
        /\ Upper(loaded.routes[k].method) = req.method}

\* The template is a mapping whose string representation shows the token.
ShowsToken(tmpl) == tmpl.t = "dict" /\ IsSubstring(DATA, PyStr(tmpl))

\* The request's body parses as JSON.
Parses(req) == req.body.mimetype = "application/json" /\ req.body.loads.ok

NotFoundText ==
    <<"{", "\"", "e", "r", "r", "o", "r", "\"", ":", "\"", "R", "o", "u", "t", "e",
      " ", "n", "o", "t", " ", "f", "o", "u", "n", "d", "\"", "}", "\n">>

\* C1: whenever some rule's stripped fragment is a substring of the request
\* path and its upper-cased method is the request's, the request is answered
\* from that rule or an earlier one that satisfies both conditions, never from
\* a later rule and never with the not-found fallback; a rule whose stripped
\* fragment is empty satisfies the path condition for every path.
C1_FirstMatchWins ==
    \A w \in Workers :
        Answered(w) /\ OnSurface(w) =>
            \A k \in Satisfying(request[w]) :
                /\ route[w] \in Satisfying(request[w])
                /\ route[w] <= k
                /\ response[w].by # "fallback"

\* C2: a request that no rule satisfies gets exactly status 404, content type
\* application/json and the body {"error": "Route not found"}.
C2_NotFoundFallback ==
    \A w \in Workers :
        Answered(w) /\ OnSurface(w) /\ Satisfying(request[w]) = {} =>
            /\ response[w].status = 404
            /\ response[w].mimetype = "application/json"
            /\ response[w].body = NotFoundText

\* C3: when the matched template is a mapping that shows the token, the
\* rendered body is a mapping with the same keys, every string field has each
\* occurrence of the token replaced by the string representation of the
\* request body, and every other field is the template's.
C3_SubstitutionRendered ==
    \A w \in Workers :
        Answered(w) /\ route[w] # 0 /\ ShowsToken(Rule(w).response) =>
            LET tmpl == Rule(w).response.kv
                body == response_body[w]
            IN  /\ response[w].by = "rule"
                /\ body.t = "dict"
                /\ Len(body.kv) = Len(tmpl)
                /\ \A i \in 1..Len(tmpl) :
                      /\ body.kv[i].k = tmpl[i].k
                      /\ tmpl[i].v.t # "str" => body.kv[i].v = tmpl[i].v
                      /\ tmpl[i].v.t = "str" /\ Parses(request[w]) =>
                            body.kv[i].v =
                                VStr(Replace(tmpl[i].v.s, DATA,
                                             PyStr(request[w].body.loads.v)))

\* C4: when the matched template is a mapping that shows the token and the
\* request body is absent or does not parse, the response still has the
\* rule's status code and content type, with the token replaced by the raw
\* representation of the body (its text, or None).
C4_UnparsedBodyDegrades ==
    \A w \in Workers :
        /\ Answered(w) /\ route[w] # 0 /\ ShowsToken(Rule(w).response)
        /\ ~Parses(request[w])
        => /\ response[w].by = "rule"
           /\ response[w].status = StatusOf(Rule(w))
           /\ response[w].mimetype = ContentTypeOf(Rule(w))
           /\ response_body[w] \in
                  {Injected(Rule(w).response, request[w].body.raw),
                   Injected(Rule(w).response, <<"N", "o", "n", "e">>)}

\* C5: for every matched rule the response has the rule's status code (200
\* when absent) and content type (application/json when absent), and the body
\* is encoded by content type alone: JSON for application/json, a string
\* template being a quoted JSON string, and the string representation for
\* text/plain and for any other content type.
C5_StatusTypeEncoding ==
    \A w \in Workers :
        Answered(w) /\ route[w] # 0 =>
            LET r == Rule(w)
                ctype == IF "content_type" \in DOMAIN r THEN r.content_type
                         ELSE "application/json"
            IN  /\ response[w].status =
                       (IF "status_code" \in DOMAIN r THEN r.status_code ELSE 200)
                /\ response[w].mimetype = ctype
                /\ ctype = "application/json" =>
                       response[w].body = JsonDumps(response_body[w]) \o <<"\n">>
                /\ ctype = "application/json" /\ r.response.t = "str" =>
                       response[w].body = <<"\"">> \o r.response.s \o <<"\"", "\n">>
                /\ ctype # "application/json" =>
                       response[w].body = PyStr(response_body[w])

\* C6: request handling never changes the loaded rule set: the stored rule
\* sequence is what was loaded, also after a substitution.
C6_RulesImmutable == mock_data = loaded

\* A request has been answered with a substituted body after an earlier
\* request was answered.
C6_Witness ==
    \E w \in Workers :
        /\ Answered(w) /\ response[w].by = "rule" /\ json_read[w]
        /\ response_body[w] # Rule(w).response
        /\ last_body # NoBody

\* C7: the response is a function of the rule set and the current request
\* alone: whatever was handled before, a request receives the response it
\* receives when handled against the loaded rule set from start to end.
C7_HistoryIndependent ==
    \A w \in Workers :
        Answered(w) => response[w] = Served(loaded, werkzeug, request[w])

\* A substituted response that shows the body of its own request and not the
\* different body of the request answered before it.
C7_Witness ==
    \E w \in Workers :
        /\ Answered(w) /\ response[w].by = "rule" /\ json_read[w]
        /\ Parses(request[w])
        /\ last_body \in Bodies /\ last_body.loads.ok
        /\ last_body # request[w].body
        /\ IsSubstring(PyStr(request[w].body.loads.v), response[w].body)
        /\ ~IsSubstring(PyStr(last_body.loads.v), response[w].body)

\* C8: when requests are handled concurrently, at every step of every
\* interleaving each worker holds what it would hold handling its request
\* alone against the loaded rule set: the matched route, the body before and
\* after substitution, and the response.
C8_IsolatedWorkers ==
    \A w \in Workers :
        LET req == request[w]
            i == FirstMatch(loaded.routes, req.path, req.method)
            r == loaded.routes[i]
        IN  /\ pc[w] \in {"inject", "encode"} =>
                  /\ route[w] = i /\ i # 0
                  /\ status_code[w] = StatusOf(r)
                  /\ content_type[w] = ContentTypeOf(r)
            /\ pc[w] = "inject" => response_body[w] = r.response
            /\ pc[w] = "encode" =>
                  response_body[w] =
                      IF NeedsInject(r.response)
                      THEN Injected(r.response, PyStr(RequestJson(req, werkzeug).v))
                      ELSE r.response
            /\ pc[w] = "done" => response[w] = Served(loaded, werkzeug, req)

\* Two workers hold substituted responses to requests with different bodies
\* at the same time.
C8_Witness ==
    /\ Answered(1) /\ Answered(2)
    /\ json_read[1] /\ json_read[2]
    /\ response[1].by = "rule" /\ response[2].by = "rule"
    /\ request[1].body # request[2].body
    /\ response[1] # response[2]

\* C9: every GET or POST request, the one to the root path included, is
\* passed to the matcher over the full rule sequence and answered from the
\* first matching rule or with the JSON 404 fallback.
C9_EveryPathDispatched ==
    \A w \in Workers :
        Answered(w) /\ OnSurface(w) =>
            LET sat == Satisfying(request[w])
            IN  /\ response[w].by # "router"
                /\ sat = {} => response[w].by = "fallback"
                /\ sat # {} => route[w] \in sat /\ \A k \in sat : route[w] <= k

\* C10: when the matched template is not a mapping, or is a mapping that
\* does not show the token, nothing is substituted: the rendered body is the
\* template, the request body is not read, and the response is the one any
\* other body would have received.
C10_NoSubstitutionBodyIgnored ==
    \A w \in Workers :
        Answered(w) /\ route[w] # 0 /\ ~ShowsToken(Rule(w).response) =>
            /\ ~json_read[w]
            /\ response[w].by = "rule"
            /\ response_body[w] = Rule(w).response
            /\ \A b \in Bodies :
                  Served(loaded, werkzeug, [request[w] EXCEPT !.body = b])
                      = response[w]

\* A string template with the token answered as it stands to a request whose
\* body does not parse.
C10_Witness ==
    \E w \in Workers :
        /\ Answered(w) /\ route[w] # 0
        /\ Rule(w).response.t = "str"
        /\ IsSubstring(DATA, Rule(w).response.s)
        /\ request[w].body = BodyMalformed
        /\ response[w].by = "rule"
        /\ IsSubstring(DATA, response[w].body)

====
